---- MODULE Spec2Model ----
(***************************************************************************)
(* A model of the frame admission pipeline of the logo detection app:      *)
(*   SmartDetection      (js/smart-detection.js)                           *)
(*   RekognitionService  (js/rekognition.js, cache + retrying dispatcher)  *)
(*   FMFLogoApp          (js/app.js, the detection loop)                   *)
(*                                                                         *)
(* Units.  Times are milliseconds.  Thresholds and scores are thousandths  *)
(* (0.1 is 100, 0.7 is 700).  Luminance is kept in thousandths of a grey   *)
(* level (299 r + 587 g + 114 b), which is exact.                          *)
(***************************************************************************)
EXTENDS Integers, Sequences, FiniteSets, TLC

VARIABLES
    now,              \* Date.now()
    \* ---- SmartDetection
    lastFrame,        \* this.lastFrame (NullFrame for null)
    lastScanTime,     \* this.lastScanTime
    isEnabled,        \* this.isEnabled
    motionThreshold,  \* this.motionThreshold
    qualityThreshold, \* this.qualityThreshold
    scanInterval,     \* this.scanInterval
    stats,            \* this.stats
    \* ---- RekognitionService
    isInitialized,    \* this.isInitialized
    confidenceThreshold, \* this.confidenceThreshold, in hundredths
    rstats,           \* this.stats
    detectionCache,   \* this.detectionCache: the Map as the sequence of its
                      \* entries [key, data, timestamp] in insertion order
    calls,            \* the detectLogo invocations: where each one stands
    \* ---- FMFLogoApp, its camera, its overlay and the page
    cameraActive,     \* camera.isActive
    isRunning,        \* this.isRunning
    detectionLoop,    \* this.detectionLoop: a timer id, 0 for null
    timers,           \* the setTimeout callbacks not yet run: [id, due, kind]
    timerCount,       \* timer ids handed out so far
    animationFrames,  \* requestAnimationFrame callbacks not yet run
    hidden,           \* document.hidden
    isARActive,       \* arOverlay.isARActive
    currentDetection, \* arOverlay.currentDetection
    \* ---- observation of the calls made so far (not program state)
    spf,              \* the shouldProcessFrame call just completed, if the
                      \* last operation on the object was one
    admitTimes,       \* times of the admissions since the last reset,
                      \* updateSettings or setEnabled(false)
    done,             \* the detectLogo invocation that finished in the last
                      \* step, as it finished (IdleCall when none did)
    framesCaptured,   \* frames processFrame has captured so far
    cacheGet,         \* the getFromCache call just completed, if the last
                      \* operation on the cache was one
    stored            \* number of distinct keys stored so far

sdVars == <<lastFrame, lastScanTime, isEnabled, motionThreshold,
            qualityThreshold, scanInterval, stats>>
rkVars == <<isInitialized, confidenceThreshold, rstats, detectionCache,
            calls>>
sdObs == <<spf, admitTimes>>
rkObs == <<done, cacheGet, stored>>
obsVars == <<sdObs, rkObs>>
loopVars == <<isRunning, detectionLoop, timers, timerCount, animationFrames,
             framesCaptured>>
arVars == <<isARActive, currentDetection>>
appVars == <<cameraActive, hidden, loopVars, arVars>>
vars == <<now, sdVars, rkVars, appVars, obsVars>>

----------------------------------------------------------------------------
(* Configuration (js/config.js)                                            *)

MOTION_THRESHOLD == 100
QUALITY_THRESHOLD == 700
SCAN_INTERVAL == 2000
CONFIDENCE_THRESHOLD == 80
CACHE_DURATION == 5000
MAX_RETRIES == 3

----------------------------------------------------------------------------
(* Bounds of the model                                                     *)

StartTime == 10000   \* Date.now() when the page is loaded
ClockStep == 1000    \* granularity of the clock
MaxTicks == 5        \* the clock advances at most this many steps
MaxFrames == 3       \* cap of stats.framesAnalyzed
CacheTicks == 7      \* clock steps when the cache is checked on its own
DispTicks == 6       \* clock steps when the dispatcher is checked on its own
MaxApiCalls == 4     \* cap of stats.apiCalls
MaxCalls == 2        \* detectLogo invocations that can be in progress at once
DispCalls == 1       \* of these, when the dispatcher is checked on its own
AppApiCalls == 2     \* cap of stats.apiCalls when the application is checked
MaxTimers == 3       \* timers the application sets
AppTicks == 1        \* clock steps when the application is checked
LoopTicks == 6       \* clock steps when the loop is left to itself
MaxStored == 52      \* distinct keys stored when the cache is filled
FillStep == 2500     \* granularity of the clock while the cache is filled
FillTicks == 2       \* clock steps while the cache is filled
CooldownTicks == 9   \* clock steps while the service keeps failing

----------------------------------------------------------------------------
(* Frames.  An ImageData is [width, height, data], data the RGBA bytes     *)
(* (JS index i is data[i + 1] here).                                       *)

NullFrame == [width |-> 0, height |-> 0, data |-> <<>>]

Grey(g) == <<g, g, g, 255>>

RECURSIVE Flatten(_)
Flatten(pixels) ==
    IF pixels = <<>> THEN <<>> ELSE Head(pixels) \o Flatten(Tail(pixels))

Image3x3(greys) ==
    [width |-> 3, height |-> 3,
     data |-> Flatten([i \in 1..9 |-> Grey(greys[i])])]

\* The frames the camera can deliver in the model.
\*   1: vertical edge, dark left          2: vertical edge, dark right
\*   3: flat mid grey (no edges)          4: frame 1 with one pixel changed
FrameIds == 1..4

ImageDataOf ==
    [f \in FrameIds |->
        CASE f = 1 -> Image3x3(<<0, 128, 255,  0, 128, 255,  0, 128, 255>>)
          [] f = 2 -> Image3x3(<<255, 128, 0,  255, 128, 0,  255, 128, 0>>)
          [] f = 3 -> Image3x3(<<128, 128, 128,  128, 128, 128,  128, 128, 128>>)
          [] f = 4 -> Image3x3(<<0, 128, 255,  0, 128, 255,  0, 128, 215>>)]

----------------------------------------------------------------------------
(* SmartDetection: pure helpers                                            *)

Abs(x) == IF x < 0 THEN -x ELSE x

\* 0.299 r + 0.587 g + 0.114 b of the pixel at JS index i, in thousandths.
LumAt(data, i) == 299 * data[i + 1] + 587 * data[i + 2] + 114 * data[i + 3]

\* The sampled indexes of calculateFrameDifference: 0, 16, 32, ...
DiffSamples(data) == {i \in 0..(Len(data) - 1) : i % 16 = 0}

\* The sum of f[x] over the domain of f.
RECURSIVE SumOver(_)
SumOver(f) ==
    IF DOMAIN f = {} THEN 0
    ELSE LET x == CHOOSE y \in DOMAIN f : TRUE
         IN  f[x] + SumOver([z \in DOMAIN f \ {x} |-> f[z]])

\* A sample read past the end of frame2 is undefined in JS and makes the
\* whole score NaN; NaN compares false with everything.
NaN == [num |-> -1, den |-> 1]

\* calculateFrameDifference: the score as a fraction num / den.
calculateFrameDifference(frame1, frame2) ==
    LET data1 == frame1.data
        data2 == frame2.data
        S == DiffSamples(data1)
        D == [i \in S |-> Abs(LumAt(data1, i) - LumAt(data2, i))]
    IN  IF \E i \in S : i + 3 > Len(data2) THEN NaN
        ELSE IF S = {} THEN [num |-> 0, den |-> 1]
        ELSE [num |-> SumOver(D), den |-> Cardinality(S) * 255 * 1000]

\* diff > this.motionThreshold (threshold in thousandths)
ExceedsThreshold(diff, threshold) ==
    /\ diff # NaN
    /\ diff.num * 1000 > threshold * diff.den

\* getLuminance, in tenths of a grey level
getLuminance(data, index) ==
    IF index < 0 \/ index >= Len(data) - 2 THEN 0
    ELSE LumAt(data, index) \div 100

\* floor of the square root
RECURSIVE SqrtBetween(_, _, _)
SqrtBetween(n, lo, hi) ==
    IF lo >= hi THEN lo
    ELSE LET mid == (lo + hi + 1) \div 2
         IN  IF mid * mid <= n THEN SqrtBetween(n, mid, hi)
             ELSE SqrtBetween(n, lo, mid - 1)

Sqrt(n) == SqrtBetween(n, 0, 20000)

\* The sampled centres of calculateSharpness: y = 1 .. height - 2,
\* x = 1, 5, 9, ... < width - 1.
SharpSamples(imageData) ==
    {p \in (1..(imageData.height - 2)) \X (1..(imageData.width - 2)) :
        (p[2] - 1) % 4 = 0}

\* Gradient magnitude at (y, x), in tenths of a grey level.
Sobel(imageData, p) ==
    LET data == imageData.data
        width == imageData.width
        idx == (p[1] * width + p[2]) * 4
        tl == getLuminance(data, idx - width * 4 - 4)
        tm == getLuminance(data, idx - width * 4)
        tr == getLuminance(data, idx - width * 4 + 4)
        ml == getLuminance(data, idx - 4)
        mr == getLuminance(data, idx + 4)
        bl == getLuminance(data, idx + width * 4 - 4)
        bm == getLuminance(data, idx + width * 4)
        br == getLuminance(data, idx + width * 4 + 4)
        gx == (-1 * tl) + (1 * tr) + (-2 * ml) + (2 * mr) + (-1 * bl) + (1 * br)
        gy == (-1 * tl) + (-2 * tm) + (-1 * tr) + (1 * bl) + (2 * bm) + (1 * br)
    IN  Sqrt(gx * gx + gy * gy)

\* calculateSharpness, in thousandths
calculateSharpness(imageData) ==
    LET S == SharpSamples(imageData)
        G == [p \in S |-> Sobel(imageData, p)]
    IN  IF S = {} THEN 0
        ELSE (SumOver(G) * 100) \div (Cardinality(S) * 255)

\* The sampled indexes of calculateBrightness: 0, 64, 128, ...
BrightSamples(data) == {i \in 0..(Len(data) - 1) : i % 64 = 0}

Max(a, b) == IF a > b THEN a ELSE b

\* calculateBrightness, in thousandths
calculateBrightness(imageData) ==
    LET data == imageData.data
        S == BrightSamples(data)
        L == [i \in S |-> LumAt(data, i)]
        avgBrightness == IF S = {} THEN 0 ELSE SumOver(L) \div Cardinality(S)
    IN  IF avgBrightness < 50000 THEN avgBrightness \div 100
        ELSE IF avgBrightness > 200000
             THEN Max(0, 1000 - (avgBrightness - 200000) \div 55)
        ELSE 1000

\* qualityScore, in ten-thousandths
qualityScore(imageData) ==
    calculateSharpness(imageData) * 7 + calculateBrightness(imageData) * 3

\* assessImageQuality: qualityScore > this.qualityThreshold
assessImageQuality(imageData, threshold) ==
    qualityScore(imageData) > threshold * 10

\* copyImageData: a new ImageData with the same size and bytes
copyImageData(imageData) ==
    [width |-> imageData.width, height |-> imageData.height,
     data |-> imageData.data]

----------------------------------------------------------------------------
(* SmartDetection: the operations                                          *)

\* spf when the last operation was not a shouldProcessFrame call.
NoCall == [frame |-> 0, time |-> 0, gate |-> "none", result |-> FALSE]

ZeroStats ==
    [framesAnalyzed |-> 0, framesSkipped |-> 0,
     motionDetected |-> 0, qualityPassed |-> 0]

\* Variant: the disabled switch is ignored.
Bypassed_Never(enabled) == FALSE

\* line 21: if (!this.isEnabled) return true
Bypassed(enabled) == ~enabled

\* Variant: the throttle rejects no frame.
ThrottleRejects_Never(t, last, interval) == FALSE

\* line 29: now - this.lastScanTime < this.scanInterval
ThrottleRejects(t, last, interval) == t - last < interval

\* Variant: every frame counts as moved.
detectMotion_Always(currentImageData, baseline, threshold) ==
    [result |-> TRUE, lastFrame |-> copyImageData(currentImageData),
     counted |-> 1]

\* Variant: a frame without motion does not replace the baseline.
detectMotion_KeepsBaseline(currentImageData, baseline, threshold) ==
    IF baseline = NullFrame
    THEN [result |-> TRUE, lastFrame |-> copyImageData(currentImageData),
          counted |-> 1]
    ELSE LET diff == calculateFrameDifference(currentImageData, baseline)
             moved == ExceedsThreshold(diff, threshold)
         IN  [result |-> moved,
              lastFrame |-> IF moved THEN copyImageData(currentImageData)
                            ELSE baseline,
              counted |-> IF moved THEN 1 ELSE 0]

\* Variant: the first frame is stored but reported as no motion.
detectMotion_FirstRejected(currentImageData, baseline, threshold) ==
    IF baseline = NullFrame
    THEN [result |-> FALSE, lastFrame |-> copyImageData(currentImageData),
          counted |-> 0]
    ELSE LET diff == calculateFrameDifference(currentImageData, baseline)
             moved == ExceedsThreshold(diff, threshold)
         IN  [result |-> moved, lastFrame |-> copyImageData(currentImageData),
              counted |-> IF moved THEN 1 ELSE 0]

\* detectMotion: the result, the new baseline and the increment of
\* stats.motionDetected.
detectMotion(currentImageData, baseline, threshold) ==
    IF baseline = NullFrame
    THEN [result |-> TRUE, lastFrame |-> copyImageData(currentImageData),
          counted |-> 1]
    ELSE LET diff == calculateFrameDifference(currentImageData, baseline)
             moved == ExceedsThreshold(diff, threshold)
         IN  [result |-> moved, lastFrame |-> copyImageData(currentImageData),
              counted |-> IF moved THEN 1 ELSE 0]

\* Variant: a rejected frame is not counted as skipped.
Skipped_NotCounted(sd) == sd

\* lines 30, 36, 42: this.stats.framesSkipped++
Skipped(sd) == [sd EXCEPT !.stats.framesSkipped = @ + 1]

\* Variant: the throttled frame becomes the motion baseline.
Throttled_Rebased(sd, imageData) ==
    [sd EXCEPT !.stats.framesSkipped = @ + 1,
               !.lastFrame = copyImageData(imageData)]

\* lines 29-32: the object a throttled call leaves behind
Throttled(sd, imageData) == Skipped(sd)

\* Variant: the admission does not move the throttle timestamp.
ScanTimeAfterAdmit_Stale(t, last) == last

\* line 46: this.lastScanTime = now
ScanTimeAfterAdmit(t, last) == t

\* The SmartDetection object as one record.
SD ==
    [lastFrame |-> lastFrame, lastScanTime |-> lastScanTime,
     isEnabled |-> isEnabled, motionThreshold |-> motionThreshold,
     qualityThreshold |-> qualityThreshold, scanInterval |-> scanInterval,
     stats |-> stats]

\* shouldProcessFrame on the object sd at time t: the object afterwards,
\* the value returned and the line that returned it.
ShouldProcess(sd, imageData, t) ==
    IF Bypassed(sd.isEnabled)
    THEN [sd |-> sd, result |-> TRUE, gate |-> "disabled"]
    ELSE
    LET s1 == [sd EXCEPT !.stats.framesAnalyzed = @ + 1]
    IN  IF ThrottleRejects(t, s1.lastScanTime, s1.scanInterval)
        THEN [sd |-> Throttled(s1, imageData), result |-> FALSE,
              gate |-> "throttle"]
        ELSE
        LET m == detectMotion(imageData, s1.lastFrame, s1.motionThreshold)
            s2 == [s1 EXCEPT !.lastFrame = m.lastFrame,
                             !.stats.motionDetected = @ + m.counted]
        IN  IF ~m.result
            THEN [sd |-> Skipped(s2), result |-> FALSE, gate |-> "motion"]
            ELSE IF ~assessImageQuality(imageData, s2.qualityThreshold)
            THEN [sd |-> Skipped(s2), result |-> FALSE, gate |-> "quality"]
            ELSE [sd |-> [s2 EXCEPT
                            !.lastScanTime = ScanTimeAfterAdmit(t, @),
                            !.stats.qualityPassed = @ + 1],
                  result |-> TRUE, gate |-> "admit"]

\* The object sd becomes the state of SmartDetection.
SDBecomes(sd) ==
    /\ lastFrame' = sd.lastFrame
    /\ lastScanTime' = sd.lastScanTime
    /\ isEnabled' = sd.isEnabled
    /\ motionThreshold' = sd.motionThreshold
    /\ qualityThreshold' = sd.qualityThreshold
    /\ scanInterval' = sd.scanInterval
    /\ stats' = sd.stats

\* shouldProcessFrame(frameData) at time now; the call is recorded in spf.
shouldProcessFrame(f) ==
    LET r == ShouldProcess(SD, ImageDataOf[f], now)
    IN  /\ isEnabled => stats.framesAnalyzed < MaxFrames
        /\ SDBecomes(r.sd)
        /\ spf' = [frame |-> f, time |-> now, gate |-> r.gate,
                   result |-> r.result]
        /\ admitTimes' = IF r.result /\ r.gate = "admit"
                         THEN admitTimes \cup {now} ELSE admitTimes

\* Variant: switching smart detection clears the counters.
setEnabled_ClearsStats(enabled) ==
    /\ isEnabled' = enabled
    /\ stats' = ZeroStats
    /\ admitTimes' = IF enabled THEN admitTimes ELSE {}
    /\ spf' = NoCall
    /\ UNCHANGED <<lastFrame, lastScanTime, motionThreshold, qualityThreshold,
                   scanInterval>>

\* setEnabled(enabled)
setEnabled(enabled) ==
    /\ isEnabled' = enabled
    /\ admitTimes' = IF enabled THEN admitTimes ELSE {}
    /\ spf' = NoCall
    /\ UNCHANGED <<lastFrame, lastScanTime, motionThreshold, qualityThreshold,
                   scanInterval, stats>>

Undefined == -1

\* The values a caller passes in the model: a field is left out or set to a
\* value other than the configured one.
MotionSettings == {Undefined, 700}
QualitySettings == {Undefined, 200}
IntervalSettings == {Undefined, 1000}

\* updateSettings(settings)
updateSettings(settings) ==
    /\ motionThreshold' = IF settings.motionThreshold # Undefined
                          THEN settings.motionThreshold ELSE motionThreshold
    /\ qualityThreshold' = IF settings.qualityThreshold # Undefined
                           THEN settings.qualityThreshold ELSE qualityThreshold
    /\ scanInterval' = IF settings.scanInterval # Undefined
                       THEN settings.scanInterval ELSE scanInterval
    /\ admitTimes' = {}
    /\ spf' = NoCall
    /\ UNCHANGED <<lastFrame, lastScanTime, isEnabled, stats>>

\* reset()
reset ==
    /\ lastFrame' = NullFrame
    /\ lastScanTime' = 0
    /\ stats' = ZeroStats
    /\ admitTimes' = {}
    /\ spf' = NoCall
    /\ UNCHANGED <<isEnabled, motionThreshold, qualityThreshold, scanInterval>>

----------------------------------------------------------------------------
(* RekognitionService: the detection cache                                 *)

\* The position of key in the Map, 0 when it has no entry.
IndexOf(cache, key) ==
    IF \E i \in 1..Len(cache) : cache[i].key = key
    THEN CHOOSE i \in 1..Len(cache) : cache[i].key = key
    ELSE 0

\* Map.delete(key)
MapDelete(cache, key) ==
    LET i == IndexOf(cache, key)
    IN  IF i = 0 THEN cache
        ELSE SubSeq(cache, 1, i - 1) \o SubSeq(cache, i + 1, Len(cache))

\* Map.set(key, value): an existing key keeps its place
MapSet(cache, entry) ==
    LET i == IndexOf(cache, entry.key)
    IN  IF i = 0 THEN Append(cache, entry)
        ELSE [cache EXCEPT ![i] = entry]

\* this.cacheTimeout, set once by the constructor
cacheTimeout == CACHE_DURATION

\* Variant: an entry is still served at the age of the timeout.
Fresh_Inclusive(t, timestamp, timeout) == t - timestamp <= timeout

\* line 161: Date.now() - cached.timestamp < this.cacheTimeout
Fresh(t, timestamp, timeout) == t - timestamp < timeout

\* Variant: every read misses.
getFromCache_Miss(cache, key, t, timeout) ==
    [hit |-> FALSE, data |-> <<>>, cache |-> cache]

\* Variant: a hit removes the entry it returns.
getFromCache_Evicting(cache, key, t, timeout) ==
    LET i == IndexOf(cache, key)
    IN  IF i # 0 /\ t - cache[i].timestamp < timeout
        THEN [hit |-> TRUE, data |-> cache[i].data,
              cache |-> MapDelete(cache, key)]
        ELSE [hit |-> FALSE, data |-> <<>>,
              cache |-> IF i # 0 THEN MapDelete(cache, key) ELSE cache]

\* Variant: a hit moves the entry to the end of the Map, as a
\* least-recently-used cache would.
getFromCache_Touching(cache, key, t, timeout) ==
    LET i == IndexOf(cache, key)
    IN  IF i # 0 /\ Fresh(t, cache[i].timestamp, timeout)
        THEN [hit |-> TRUE, data |-> cache[i].data,
              cache |-> Append(MapDelete(cache, key), cache[i])]
        ELSE [hit |-> FALSE, data |-> <<>>,
              cache |-> IF i # 0 THEN MapDelete(cache, key) ELSE cache]

\* getFromCache(key) at time t: the value returned (hit FALSE for null)
\* and the Map afterwards.
getFromCache(cache, key, t, timeout) ==
    LET i == IndexOf(cache, key)
    IN  IF i # 0 /\ Fresh(t, cache[i].timestamp, timeout)
        THEN [hit |-> TRUE, data |-> cache[i].data, cache |-> cache]
        ELSE [hit |-> FALSE, data |-> <<>>,
              cache |-> IF i # 0 THEN MapDelete(cache, key) ELSE cache]

\* line 175: the size the Map must exceed before an entry is evicted
MAX_ENTRIES == 50

\* line 175: this.detectionCache.size > 50
CacheFull(size) == size > MAX_ENTRIES

\* cacheResult(key, data) at time t: the Map afterwards.
cacheResult(cache, key, data, t) ==
    LET room == IF CacheFull(Len(cache))
                THEN MapDelete(cache, cache[1].key)
                ELSE cache
    IN  MapSet(room, [key |-> key, data |-> data, timestamp |-> t])

\* What detectCustomLabels can answer: the Confidence (percent) of each
\* custom label found, in the order the service lists them.
ServiceResults == {<<>>, <<90>>, <<60, 90>>}

\* processDetectionResults(result) at time t; confidence stays in hundredths.
processDetectionResults(result, t) ==
    IF Len(result) = 0 THEN <<>>
    ELSE [i \in 1..Len(result) |->
            [name |-> "Logo", confidence |-> result[i], timestamp |-> t]]

\* cacheGet when the last cache operation was not a getFromCache call.
NoGet == [key |-> 0, time |-> 0, hit |-> FALSE, data |-> <<>>,
          had |-> FALSE, age |-> 0]

----------------------------------------------------------------------------
(* RekognitionService: the encoded frame and its cache key                 *)

\* "data:image/jpeg;base64," as character codes
DataUrlPrefix ==
    <<100, 97, 116, 97, 58, 105, 109, 97, 103, 101, 47, 106, 112, 101, 103,
      59, 98, 97, 115, 101, 54, 52, 44>>

\* line 148: the number of characters generateCacheKey reads
KEY_PREFIX_LENGTH == 1000

\* The strings detectLogo is called with in the model: the encoded frames
\* and one string that is not an encoded image.
DataUrlIds == FrameIds \cup {5}

\* The length of every encoded frame of the model.
DataUrlLength == 1003

\* canvas.toDataURL('image/jpeg', 0.8) of frame f, as character codes.  The
\* characters are base64 letters; the encoded frames share the JPEG header
\* and differ in the positions listed here:
\*   frames 1 and 2 differ only after the first 1000 characters,
\*   frames 3 and 4 differ from frame 1 (and from each other) before them.
\* 5 is not an encoded frame: it is the string "data:,", which toDataURL
\* returns for a canvas without pixels and which any caller of detectLogo
\* can pass.
DataURLOf ==
    [f \in DataUrlIds |->
        IF f \notin FrameIds THEN <<100, 97, 116, 97, 58, 44>>
        ELSE
        [i \in 1..DataUrlLength |->
            IF i <= Len(DataUrlPrefix) THEN DataUrlPrefix[i]
            ELSE IF i = 1002 THEN 65 + f
            ELSE IF i = 900 /\ f \in {3, 4} THEN 97 + f
            ELSE 65 + ((i * 7) % 26)]]

\* str.substring(0, n)
Substring(str, n) == SubSeq(str, 1, IF Len(str) < n THEN Len(str) ELSE n)

\* One round of the loop of generateCacheKey on the 32-bit hash h, kept as
\* <<high 16 bits, low 16 bits>>: ((hash << 5) - hash) + char, then
\* hash & hash.
HashStep(h, char) ==
    LET low == 31 * h[2] + char
        high == 31 * h[1] + (low \div 65536)
    IN  <<high % 65536, low % 65536>>

\* The loop over str[i .. j], first half then second half (the test of
\* the first half's hash makes the evaluation finish it before going on).
RECURSIVE HashRange(_, _, _, _)
HashRange(h, str, i, j) ==
    IF i > j THEN h
    ELSE IF i = j THEN HashStep(h, str[i])
    ELSE LET mid == (i + j) \div 2
             first == HashRange(h, str, i, mid)
         IN  IF first[1] < 0 THEN first
             ELSE HashRange(first, str, mid + 1, j)

\* The signed 32-bit integer of <<high, low>>.
ToInt32(h) ==
    IF h[1] >= 32768 THEN (h[1] - 65536) * 65536 + h[2]
    ELSE h[1] * 65536 + h[2]

\* Variant: the hash runs over the whole encoded frame.
generateCacheKey_Whole(imageDataUrl) ==
    ToInt32(HashRange(<<0, 0>>, imageDataUrl, 1, Len(imageDataUrl)))

\* generateCacheKey(imageDataUrl); the key is the decimal string of the
\* hash, represented by the hash.
generateCacheKey(imageDataUrl) ==
    LET str == Substring(imageDataUrl, KEY_PREFIX_LENGTH)
    IN  ToInt32(HashRange(<<0, 0>>, str, 1, Len(str)))

\* generateCacheKey(frameData.dataURL) of each frame, computed once.
KeyOf == [f \in DataUrlIds |-> generateCacheKey(DataURLOf[f])]

\* The characters atob accepts: A-Z a-z 0-9 + / =
Base64Char(c) ==
    \/ c \in 65..90
    \/ c \in 97..122
    \/ c \in 48..57
    \/ c \in {43, 47, 61}

\* dataUrlToBytes succeeds: the prefix is removed when it is there, and
\* atob decodes what is left.
Decodable(dataUrl) ==
    LET n == Len(DataUrlPrefix)
        rest == IF Len(dataUrl) >= n /\ SubSeq(dataUrl, 1, n) = DataUrlPrefix
                THEN SubSeq(dataUrl, n + 1, Len(dataUrl))
                ELSE dataUrl
    IN  /\ \A i \in 1..Len(rest) : Base64Char(rest[i])
        /\ Len(rest) % 4 # 1

\* Whether dataUrlToBytes(frameData.dataURL) succeeds, computed once.
DecodableFrame == [f \in DataUrlIds |-> Decodable(DataURLOf[f])]

----------------------------------------------------------------------------
(* RekognitionService: detectLogo                                          *)

ZeroRStats == [apiCalls |-> 0, detections |-> 0, errors |-> 0,
               avgConfidence |-> 0]

\* The errors detectCustomLabels can fail with: the code and the HTTP
\* status the AWS SDK reports with it (0: none, the request got no answer).
ServiceErrors ==
    {[code |-> "ThrottlingException", statusCode |-> 400],
     [code |-> "InternalServerError", statusCode |-> 500],
     [code |-> "ServiceUnavailableException", statusCode |-> 503],
     [code |-> "RequestTimeout", statusCode |-> 400],
     [code |-> "NetworkingError", statusCode |-> 0],
     [code |-> "InvalidParameterException", statusCode |-> 400],
     [code |-> "ResourceNotFoundException", statusCode |-> 400],
     [code |-> "AccessDeniedException", statusCode |-> 400],
     [code |-> "LimitExceededException", statusCode |-> 400]}

\* What atob throws on text that is not base64.
InvalidCharacterError == [code |-> "5", statusCode |-> 0]

\* isRetryableError(error)
isRetryableError(error) ==
    \/ error.code \in {"ThrottlingException", "InternalServerError",
                       "ServiceUnavailableException", "RequestTimeout"}
    \/ error.statusCode >= 500
    \/ error.code = "NetworkingError"

\* handleRekognitionError(error): the message of the Error it returns.  In
\* the default case the message is "AWS Error: " and the message of the
\* service, written here as the code.
handleRekognitionError(error) ==
    CASE error.code = "InvalidParameterException" ->
           "Invalid image format or parameters"
      [] error.code = "ResourceNotFoundException" ->
           "Custom Labels model not found or not running"
      [] error.code = "AccessDeniedException" ->
           "Access denied. Check AWS credentials and permissions"
      [] error.code = "ThrottlingException" ->
           "Too many requests. Please wait and try again"
      [] error.code = "LimitExceededException" -> "Service limit exceeded"
      [] error.code = "InternalServerError" ->
           "AWS service error. Please try again"
      [] OTHER -> "AWS Error: " \o error.code

\* The answers of the service to a request with MinConfidence
\* minConfidence: it lists only the labels at or above it.
ServiceResultsFor(minConfidence) ==
    {r \in ServiceResults : \A i \in 1..Len(r) : r[i] >= minConfidence}

CallIds == 1..MaxCalls

\* A detectLogo invocation.  pc: "idle" (none yet), "remote" (awaiting
\* detectCustomLabels, called with MinConfidence minConfidence), "delay"
\* (awaiting the retry delay, over at time due), "resolved", "rejected".
\* attempts, fatal and cached observe the invocation:
\* the remote calls it issued, whether one of them failed with an error
\* that is not retryable, whether the value came from the cache.
IdleCall ==
    [pc |-> "idle", frame |-> 0, retryCount |-> 0, due |-> 0,
     minConfidence |-> 0, attempts |-> 0, fatal |-> FALSE, cached |-> FALSE, value |-> <<>>, message |-> ""]

\* Variant: one retry fewer.
Retries_OneFewer(retryCount, error) ==
    retryCount + 1 < MAX_RETRIES /\ isRetryableError(error)

\* line 102: retryCount < this.maxRetries && this.isRetryableError(error)
Retries(retryCount, error) ==
    retryCount < MAX_RETRIES /\ isRetryableError(error)

\* Variant: the delay doubles with every retry.
RetryDelay_Exponential(retryCount) == 1000 * 2^retryCount

\* line 104: the delay before the retry, 1000 * (retryCount + 1)
RetryDelay(retryCount) == 1000 * (retryCount + 1)

\* The RekognitionService object as one record.
RK ==
    [confidenceThreshold |-> confidenceThreshold, stats |-> rstats,
     cache |-> detectionCache]

\* The catch block, lines 97-109, of invocation call at time t.
Caught(rk, call, error, t) ==
    LET counted == [rk EXCEPT !.stats.errors = @ + 1]
    IN  IF Retries(call.retryCount, error)
        THEN [rk |-> counted,
              call |-> [call EXCEPT !.pc = "delay",
                                    !.due = t + RetryDelay(call.retryCount)]]
        ELSE [rk |-> counted,
              call |-> [call EXCEPT !.pc = "rejected",
                                    !.fatal = ~isRetryableError(error),
                                    !.message = handleRekognitionError(error)]]

\* Variant: a remote call is not counted.
CountApiCall_None(rk) == rk

\* this.stats.apiCalls++ (line 77)
CountApiCall(rk) == [rk EXCEPT !.stats.apiCalls = @ + 1]

\* detectLogo(imageDataUrl, retryCount) up to its first await, lines 57-80,
\* at time t.
Entered(rk, call, t) ==
    LET key == KeyOf[call.frame]
        g == getFromCache(rk.cache, key, t, cacheTimeout)
        looked == [rk EXCEPT !.cache = g.cache]
    IN  IF g.hit
        THEN [rk |-> looked,
              call |-> [call EXCEPT !.pc = "resolved", !.value = g.data,
                                    !.cached = TRUE]]
        ELSE IF ~DecodableFrame[call.frame]
        THEN Caught(looked, call, InvalidCharacterError, t)
        ELSE [rk |-> CountApiCall(looked),
              call |-> [call EXCEPT !.pc = "remote",
                                    !.minConfidence = rk.confidenceThreshold,
                                    !.attempts = @ + 1]]

\* The average of the confidences (line 91-92), in hundredths.
RECURSIVE TotalConfidence(_)
TotalConfidence(detections) ==
    IF detections = <<>> THEN 0
    ELSE Head(detections).confidence + TotalConfidence(Tail(detections))

\* Variant: empty results are cached too.
Answered_CachesAll(rk, call, result, t) ==
    LET detections == processDetectionResults(result, t)
        key == KeyOf[call.frame]
        cached == [rk EXCEPT !.cache = cacheResult(@, key, detections, t)]
    IN  [rk |-> IF Len(detections) > 0
                THEN [cached EXCEPT
                        !.stats.detections = @ + 1,
                        !.stats.avgConfidence =
                            TotalConfidence(detections) \div Len(detections)]
                ELSE cached,
         call |-> [call EXCEPT !.pc = "resolved", !.value = detections]]

\* detectLogo after detectCustomLabels answered result, lines 80-95.
Answered(rk, call, result, t) ==
    LET detections == processDetectionResults(result, t)
        key == KeyOf[call.frame]
    IN  [rk |-> IF Len(detections) > 0
                THEN [rk EXCEPT
                        !.cache = cacheResult(@, key, detections, t),
                        !.stats.detections = @ + 1,
                        !.stats.avgConfidence =
                            TotalConfidence(detections) \div Len(detections)]
                ELSE rk,
         call |-> [call EXCEPT !.pc = "resolved", !.value = detections]]

\* The object rk becomes the state of the RekognitionService.
RKBecomes(rk) ==
    /\ confidenceThreshold' = rk.confidenceThreshold
    /\ rstats' = rk.stats
    /\ detectionCache' = rk.cache
    /\ UNCHANGED isInitialized

\* initialize() succeeded.
RKInitialize ==
    /\ ~isInitialized
    /\ isInitialized' = TRUE
    /\ UNCHANGED <<confidenceThreshold, rstats, detectionCache, calls>>

\* setConfidenceThreshold(threshold), threshold in hundredths
setConfidenceThreshold(threshold) ==
    /\ confidenceThreshold' = Max(0, IF threshold < 100 THEN threshold ELSE 100)
    /\ UNCHANGED <<isInitialized, rstats, detectionCache, calls>>

\* clearCache()
clearCache ==
    /\ detectionCache' = <<>>
    /\ UNCHANGED <<isInitialized, confidenceThreshold, rstats, calls>>

\* reset() of the RekognitionService
rkReset ==
    /\ rstats' = ZeroRStats
    /\ detectionCache' = <<>>
    /\ UNCHANGED <<isInitialized, confidenceThreshold, calls>>

Finished(call) == call.pc \in {"resolved", "rejected"}

\* Invocation c stands at call: it is awaited further, or it has finished
\* and its slot is free again.
CallBecomes(c, call) ==
    IF Finished(call)
    THEN /\ calls' = [calls EXCEPT ![c] = IdleCall]
         /\ done' = call
    ELSE /\ calls' = [calls EXCEPT ![c] = call]
         /\ done' = IdleCall

\* detectLogo(frameData.dataURL) is called as invocation c, at time now.
DetectLogoCalled(c, f) ==
    LET call == [IdleCall EXCEPT !.frame = f]
    IN  IF ~isInitialized
        THEN /\ CallBecomes(c, [call EXCEPT
                               !.pc = "rejected",
                               !.message = "Rekognition service not initialized"])
             /\ UNCHANGED <<isInitialized, confidenceThreshold, rstats,
                            detectionCache>>
        ELSE LET r == Entered(RK, call, now)
             IN  /\ RKBecomes(r.rk)
                 /\ CallBecomes(c, r.call)

\* detectCustomLabels of invocation c resolves with result.
RemoteAnswered(c, result) ==
    LET r == Answered(RK, calls[c], result, now)
    IN  /\ calls[c].pc = "remote"
        /\ RKBecomes(r.rk)
        /\ CallBecomes(c, r.call)

\* detectCustomLabels of invocation c rejects with error.
RemoteFailed(c, error) ==
    LET r == Caught(RK, calls[c], error, now)
    IN  /\ calls[c].pc = "remote"
        /\ RKBecomes(r.rk)
        /\ CallBecomes(c, r.call)

\* The retry delay of invocation c is over: detectLogo(imageDataUrl,
\* retryCount + 1), line 105.
RetryStarted(c) ==
    LET again == [calls[c] EXCEPT !.retryCount = @ + 1, !.due = 0]
        r == Entered(RK, again, now)
    IN  /\ calls[c].pc = "delay"
        /\ now >= calls[c].due
        /\ RKBecomes(r.rk)
        /\ CallBecomes(c, r.call)

----------------------------------------------------------------------------
(* AROverlay (js/ar-overlay.js)                                            *)

\* currentDetection when it is null.
NoDetection == [name |-> "", confidence |-> 0, timestamp |-> 0]

\* detections.reduce((best, current) =>
\*     current.confidence > best.confidence ? current : best)
\* over the first n detections.
RECURSIVE BestDetection(_, _)
BestDetection(detections, n) ==
    IF n = 1 THEN detections[1]
    ELSE LET best == BestDetection(detections, n - 1)
         IN  IF detections[n].confidence > best.confidence
             THEN detections[n] ELSE best

\* hideDetection(): the overlay afterwards.
hideDetection == [isARActive |-> FALSE, currentDetection |-> NoDetection]

\* showDetection(detections): the overlay afterwards.
showDetection(detections) ==
    IF Len(detections) = 0 THEN hideDetection
    ELSE [isARActive |-> TRUE,
          currentDetection |-> BestDetection(detections, Len(detections))]

----------------------------------------------------------------------------
(* FMFLogoApp (js/app.js)                                                  *)

LOOP_DELAY == 100
COOLDOWN_DELAY == 2000

\* message.includes(word)
Includes(message, word) ==
    \E i \in 1..(Len(message) - Len(word) + 1) :
        SubSeq(message, i, i + Len(word) - 1) = word

\* The loop and the overlay of the FMFLogoApp object as one record.
APP ==
    [isRunning |-> isRunning, detectionLoop |-> detectionLoop,
     timers |-> timers, timerCount |-> timerCount,
     animationFrames |-> animationFrames,
     framesCaptured |-> framesCaptured,
     ar |-> [isARActive |-> isARActive,
             currentDetection |-> currentDetection]]

\* The record app becomes the state of the loop and the overlay.
AppBecomes(app) ==
    /\ isRunning' = app.isRunning
    /\ detectionLoop' = app.detectionLoop
    /\ framesCaptured' = app.framesCaptured
    /\ timers' = app.timers
    /\ timerCount' = app.timerCount
    /\ animationFrames' = app.animationFrames
    /\ isARActive' = app.ar.isARActive
    /\ currentDetection' = app.ar.currentDetection

\* setTimeout(callback, delay) at time t: the timer gets the next id.
SetTimeout(app, kind, delay, t) ==
    [app EXCEPT !.timerCount = @ + 1,
                !.timers = @ \cup {[id |-> app.timerCount + 1,
                                    due |-> t + delay, kind |-> kind]}]

\* clearTimeout(id): a timer that already ran is not there any more.
ClearTimeout(app, id) ==
    [app EXCEPT !.timers = {tm \in @ : tm.id # id}]

\* scheduleNextFrame() at time t
scheduleNextFrame(app, t) ==
    IF app.isRunning
    THEN [SetTimeout(app, "loop", LOOP_DELAY, t) EXCEPT
             !.detectionLoop = app.timerCount + 1]
    ELSE app

\* Variant: a rejected dispatch ends processFrame without a next tick.
AfterDetectLogo_Rethrows(app, call, t) ==
    IF call.pc = "resolved"
    THEN scheduleNextFrame(
             [app EXCEPT !.ar = IF Len(call.value) > 0
                                THEN showDetection(call.value)
                                ELSE hideDetection], t)
    ELSE app

\* processFrame after the await of detectLogo, lines 225-246, the
\* invocation having finished as call, at time t.
AfterDetectLogo(app, call, t) ==
    IF call.pc = "resolved"
    THEN scheduleNextFrame(
             [app EXCEPT !.ar = IF Len(call.value) > 0
                                THEN showDetection(call.value)
                                ELSE hideDetection], t)
    ELSE IF Includes(call.message, "ThrottlingException")
    THEN SetTimeout(app, "cooldown", COOLDOWN_DELAY, t)
    ELSE scheduleNextFrame(app, t)

\* The first free slot for a detectLogo invocation (0: none).
FreeCall ==
    IF \E c \in CallIds : calls[c].pc = "idle"
    THEN CHOOSE c \in CallIds :
             /\ calls[c].pc = "idle"
             /\ \A d \in CallIds : calls[d].pc = "idle" => c <= d
    ELSE 0

\* processFrame() up to its first await or its end, the loop and the
\* overlay being app and the camera delivering frame f.
processFrame(app, f) ==
    IF ~app.isRunning
    THEN /\ AppBecomes(app)
         /\ spf' = NoCall
         /\ done' = IdleCall
         /\ UNCHANGED <<sdVars, rkVars, admitTimes>>
    ELSE IF ~cameraActive
    THEN /\ AppBecomes(scheduleNextFrame(app, now))
         /\ spf' = NoCall
         /\ done' = IdleCall
         /\ UNCHANGED <<sdVars, rkVars, admitTimes>>
    ELSE LET counted == [app EXCEPT !.framesCaptured = @ + 1]
         IN  /\ shouldProcessFrame(f)
             /\ IF spf'.result
                THEN /\ FreeCall # 0
                     /\ rstats.apiCalls < AppApiCalls
                     /\ DetectLogoCalled(FreeCall, f)
                     /\ AppBecomes(IF Finished(done')
                                   THEN AfterDetectLogo(counted, done', now)
                                   ELSE counted)
                ELSE /\ AppBecomes(scheduleNextFrame(counted, now))
                     /\ done' = IdleCall
                     /\ UNCHANGED rkVars

\* startDetection(), the camera being ready
startDetection(f) ==
    /\ ~isRunning
    /\ processFrame([APP EXCEPT !.isRunning = TRUE], f)

\* stopDetection()
stopDetection ==
    /\ isRunning
    /\ AppBecomes([(IF detectionLoop # 0
                    THEN ClearTimeout(APP, detectionLoop) ELSE APP) EXCEPT
                      !.isRunning = FALSE,
                      !.detectionLoop = 0,
                      !.ar = hideDetection])

\* pauseDetection(): the loop afterwards.
pauseDetection(app) ==
    IF app.detectionLoop # 0
    THEN [ClearTimeout(app, app.detectionLoop) EXCEPT !.detectionLoop = 0]
    ELSE app

\* The visibilitychange handler when the page is hidden.
PageHidden ==
    /\ ~hidden
    /\ hidden' = TRUE
    /\ AppBecomes(IF isRunning THEN pauseDetection(APP) ELSE APP)

\* Variant: the handler does not resume the loop.
PageVisible_NoResume(f) ==
    /\ hidden
    /\ hidden' = FALSE
    /\ UNCHANGED <<loopVars, arVars, sdVars, rkVars, admitTimes>>
    /\ spf' = spf
    /\ done' = IdleCall

\* The visibilitychange handler when the page is visible again:
\* resumeDetection() runs processFrame when no timer id is held.
PageVisible(f) ==
    /\ hidden
    /\ hidden' = FALSE
    /\ IF isRunning /\ detectionLoop = 0
       THEN processFrame(APP, f)
       ELSE /\ UNCHANGED <<loopVars, arVars, sdVars, rkVars, admitTimes>>
            /\ spf' = spf
            /\ done' = IdleCall

\* A timer is due and its callback runs: the loop timer requests an
\* animation frame, the cooldown ends with scheduleNextFrame().
TimerFired(tm) ==
    /\ tm \in timers
    /\ now >= tm.due
    /\ LET app == [APP EXCEPT !.timers = @ \ {tm}]
       IN  AppBecomes(IF tm.kind = "loop"
                      THEN [app EXCEPT !.animationFrames = @ + 1]
                      ELSE scheduleNextFrame(app, now))

\* Variant: animation-frame callbacks run on a hidden page too.
AnimationFrame_Hidden(f) ==
    /\ animationFrames > 0
    /\ processFrame([APP EXCEPT !.animationFrames = @ - 1], f)

\* The animation-frame callback runs (the page is visible):
\* startDetectionLoop().
AnimationFrame(f) ==
    /\ animationFrames > 0
    /\ ~hidden
    /\ processFrame([APP EXCEPT !.animationFrames = @ - 1], f)

\* The continuation of processFrame when the invocation of detectLogo it
\* awaits has finished in this step.
Continued ==
    AppBecomes(IF Finished(done') THEN AfterDetectLogo(APP, done', now)
               ELSE APP)

\* initialize(): the dispatcher is initialized, the camera started.
AppInitialize ==
    /\ ~cameraActive
    /\ cameraActive' = TRUE
    /\ RKInitialize

----------------------------------------------------------------------------
(* The clock                                                               *)

\* The clock advances by d, up to StartTime + horizon.
ClockAdvance(d, horizon) ==
    /\ now + d <= StartTime + horizon
    /\ now' = now + d

SDInit ==
    /\ lastFrame = NullFrame
    /\ lastScanTime = 0
    /\ isEnabled = TRUE
    /\ motionThreshold = MOTION_THRESHOLD
    /\ qualityThreshold = QUALITY_THRESHOLD
    /\ scanInterval = SCAN_INTERVAL
    /\ stats = ZeroStats

ObsInit ==
    /\ spf = NoCall
    /\ admitTimes = {}
    /\ done = IdleCall
    /\ cacheGet = NoGet
    /\ stored = 0

RKInit ==
    /\ isInitialized = FALSE
    /\ confidenceThreshold = CONFIDENCE_THRESHOLD
    /\ rstats = ZeroRStats
    /\ detectionCache = <<>>
    /\ calls = [c \in CallIds |-> IdleCall]

AppInit ==
    /\ cameraActive = FALSE
    /\ isRunning = FALSE
    /\ detectionLoop = 0
    /\ framesCaptured = 0
    /\ timers = {}
    /\ timerCount = 0
    /\ animationFrames = 0
    /\ hidden = FALSE
    /\ isARActive = FALSE
    /\ currentDetection = NoDetection

Init ==
    /\ now = StartTime
    /\ SDInit
    /\ RKInit
    /\ AppInit
    /\ ObsInit

----------------------------------------------------------------------------
(* SmartDetection on its own: any sequence of calls at any times           *)

SDFrame ==
    \E f \in FrameIds :
        shouldProcessFrame(f) /\ UNCHANGED <<now, rkVars, rkObs, appVars>>
SDSetEnabled ==
    \E b \in BOOLEAN : setEnabled(b) /\ UNCHANGED <<now, rkVars, rkObs, appVars>>
SDUpdateSettings ==
    \E m \in MotionSettings, q \in QualitySettings, i \in IntervalSettings :
        /\ updateSettings([motionThreshold |-> m, qualityThreshold |-> q,
                           scanInterval |-> i])
        /\ UNCHANGED <<now, rkVars, rkObs, appVars>>
SDReset == reset /\ UNCHANGED <<now, rkVars, rkObs, appVars>>
SDTick ==
    \E k \in 1..2 :
        /\ ClockAdvance(k * ClockStep, MaxTicks * ClockStep)
        /\ UNCHANGED <<sdVars, rkVars, obsVars, appVars>>

Next ==
    \/ SDFrame
    \/ SDSetEnabled
    \/ SDUpdateSettings
    \/ SDReset
    \/ SDTick

Spec == Init /\ [][Next]_vars

----------------------------------------------------------------------------
(* The detection cache on its own: reads and writes of a few keys at any   *)
(* times                                                                   *)

CacheKeys == 1..3

\* getFromCache(key) at time now; the call is recorded in cacheGet.
CacheRead(key) ==
    LET g == getFromCache(detectionCache, key, now, cacheTimeout)
        i == IndexOf(detectionCache, key)
    IN  /\ detectionCache' = g.cache
        /\ cacheGet' = [key |-> key, time |-> now, hit |-> g.hit,
                        data |-> g.data, had |-> i # 0,
                        age |-> IF i # 0 THEN now - detectionCache[i].timestamp
                                ELSE 0]
        /\ UNCHANGED <<stored, done, isInitialized, confidenceThreshold,
                       rstats, calls>>

\* cacheResult(key, data) at time now, data a non-empty detection list.
CacheWrite(key, result) ==
    /\ detectionCache' =
           cacheResult(detectionCache, key,
                       processDetectionResults(result, now), now)
    /\ cacheGet' = NoGet
    /\ stored' = IF IndexOf(detectionCache, key) = 0 /\ stored < MaxStored
                 THEN stored + 1 ELSE stored
    /\ UNCHANGED <<done, isInitialized, confidenceThreshold, rstats, calls>>

CacheGetStep ==
    \E k \in CacheKeys : CacheRead(k) /\ UNCHANGED <<now, sdVars, sdObs, appVars>>
CachePutStep ==
    \E k \in CacheKeys, r \in ServiceResults \ {<<>>} :
        CacheWrite(k, r) /\ UNCHANGED <<now, sdVars, sdObs, appVars>>
CacheTick ==
    \E k \in 1..2 :
        /\ ClockAdvance(k * ClockStep, CacheTicks * ClockStep)
        /\ UNCHANGED <<sdVars, rkVars, obsVars, appVars>>

CacheNext ==
    \/ CacheGetStep
    \/ CachePutStep
    \/ CacheTick

SpecCache == Init /\ [][CacheNext]_vars

----------------------------------------------------------------------------
(* Filling the cache: distinct keys stored one after the other (the n-th   *)
(* key stored is named n), reads of the oldest and the newest key          *)

FillPut ==
    /\ stored < MaxStored
    /\ CacheWrite(stored + 1, <<90>>)
    /\ UNCHANGED <<now, sdVars, sdObs, appVars>>
FillGet ==
    \E k \in {1, 2, stored} :
        /\ k >= 1
        /\ CacheRead(k)
        /\ UNCHANGED <<now, sdVars, sdObs, appVars>>
FillTick ==
    /\ ClockAdvance(FillStep, FillTicks * FillStep)
    /\ UNCHANGED <<sdVars, rkVars, obsVars, appVars>>

FillNext ==
    \/ FillPut
    \/ FillGet
    \/ FillTick

SpecFill == Init /\ [][FillNext]_vars

----------------------------------------------------------------------------
(* The RekognitionService on its own: detectLogo called for any frame at   *)
(* any time, up to MaxCalls invocations in progress at once, the service   *)
(* answering or failing each remote call in any way                        *)

\* The thresholds a caller sets in the model, in hundredths.
ThresholdInputs == {50, 95}

\* The frames detectLogo is called for: 1 and 2 have the same cache key,
\* 4 has another.
DispFrames == {1, 2, 4}

NoneDone == done' = IdleCall

DispInitialize ==
    RKInitialize /\ NoneDone /\ UNCHANGED <<now, sdVars, sdObs, cacheGet, stored, appVars>>
DispCall ==
    \E c \in 1..DispCalls, f \in DispFrames :
        /\ calls[c].pc = "idle"
        /\ rstats.apiCalls < MaxApiCalls
        /\ DetectLogoCalled(c, f)
        /\ UNCHANGED <<now, sdVars, sdObs, cacheGet, stored, appVars>>
DispAnswer ==
    \E c \in 1..DispCalls :
        \E r \in ServiceResultsFor(calls[c].minConfidence) :
            /\ RemoteAnswered(c, r)
            /\ UNCHANGED <<now, sdVars, sdObs, cacheGet, stored, appVars>>
DispFail ==
    \E c \in 1..DispCalls, e \in ServiceErrors :
        /\ RemoteFailed(c, e)
        /\ UNCHANGED <<now, sdVars, sdObs, cacheGet, stored, appVars>>
DispRetry ==
    \E c \in 1..DispCalls :
        /\ rstats.apiCalls < MaxApiCalls
        /\ RetryStarted(c)
        /\ UNCHANGED <<now, sdVars, sdObs, cacheGet, stored, appVars>>
DispSetThreshold ==
    \E t \in ThresholdInputs :
        /\ setConfidenceThreshold(t)
        /\ NoneDone
        /\ UNCHANGED <<now, sdVars, sdObs, cacheGet, stored, appVars>>
DispClearCache ==
    clearCache /\ NoneDone /\ UNCHANGED <<now, sdVars, sdObs, cacheGet, stored, appVars>>
DispReset ==
    rkReset /\ NoneDone /\ UNCHANGED <<now, sdVars, sdObs, cacheGet, stored, appVars>>
DispTick ==
    \E k \in 1..3 :
        /\ ClockAdvance(k * ClockStep, DispTicks * ClockStep)
        /\ NoneDone
        /\ UNCHANGED <<sdVars, rkVars, sdObs, cacheGet, stored, appVars>>

DispNext ==
    \/ DispInitialize
    \/ DispCall
    \/ DispAnswer
    \/ DispFail
    \/ DispRetry
    \/ DispSetThreshold
    \/ DispClearCache
    \/ DispReset
    \/ DispTick

SpecDispatch == Init /\ [][DispNext]_vars

\* Overlapping invocations: detectLogo is async, so a caller that does not
\* await it can have up to MaxCalls invocations waiting for the service at
\* once; each reads the cache when it is called and writes it when its own
\* answer arrives.
OverlapCall ==
    \E c \in CallIds, f \in DispFrames :
        /\ calls[c].pc = "idle"
        /\ rstats.apiCalls < MaxApiCalls
        /\ DetectLogoCalled(c, f)
        /\ UNCHANGED <<now, sdVars, sdObs, cacheGet, stored, appVars>>
OverlapAnswer ==
    \E c \in CallIds :
        \E r \in ServiceResultsFor(calls[c].minConfidence) :
            /\ RemoteAnswered(c, r)
            /\ UNCHANGED <<now, sdVars, sdObs, cacheGet, stored, appVars>>

OverlapNext ==
    \/ DispInitialize
    \/ OverlapCall
    \/ OverlapAnswer
    \/ DispTick

SpecOverlap == Init /\ [][OverlapNext]_vars

\* The dispatcher called with strings that may not decode: an encoded
\* frame and the string that is not an image.
DecodeInputs == {1, 5}

DecodeCall ==
    \E c \in 1..DispCalls, f \in DecodeInputs :
        /\ calls[c].pc = "idle"
        /\ rstats.apiCalls < MaxApiCalls
        /\ rstats.errors < MaxApiCalls
        /\ DetectLogoCalled(c, f)
        /\ UNCHANGED <<now, sdVars, sdObs, cacheGet, stored, appVars>>

DecodeNext ==
    \/ DispInitialize
    \/ DecodeCall
    \/ DispAnswer
    \/ DispFail
    \/ DispRetry
    \/ DispTick

SpecDecode == Init /\ [][DecodeNext]_vars

----------------------------------------------------------------------------
(* The application: the buttons, the page, the timers, the camera and the  *)
(* service, in any order.  The buttons and the toggle are clicked on a     *)
(* visible page; a hidden page runs timers but no animation-frame callback *)

\* The frames the camera delivers: they differ by more than
\* MOTION_THRESHOLD and have the same cache key.
AppFrames == {1, 2}

\* The errors of the service in the application: one that is retried and
\* one that is not.
AppErrors ==
    {e \in ServiceErrors :
        e.code \in {"ThrottlingException", "AccessDeniedException"}}

\* The due times that lie ahead: of the timers and of the retry delays.
DueTimes ==
    {tm.due : tm \in timers} \cup
    {calls[c].due : c \in {d \in CallIds : calls[d].pc = "delay"}}

\* By how much the clock advances in one step: to a due time, or by the
\* given number of clock steps.
AppSteps(ticks) ==
    {due - now : due \in {d \in DueTimes : d > now}} \cup {ticks * ClockStep}

TimersBounded == timerCount' <= MaxTimers

AppInitializeStep ==
    /\ AppInitialize
    /\ NoneDone
    /\ UNCHANGED <<now, sdVars, hidden, loopVars, arVars, sdObs, cacheGet,
                   stored>>
AppStart ==
    \E f \in AppFrames :
        /\ cameraActive
        /\ ~hidden
        /\ startDetection(f)
        /\ TimersBounded
        /\ UNCHANGED <<now, cameraActive, hidden, cacheGet, stored>>
AppStop ==
    /\ ~hidden
    /\ stopDetection
    /\ NoneDone
    /\ UNCHANGED <<now, sdVars, rkVars, cameraActive, hidden, sdObs,
                   cacheGet, stored>>
AppHidden ==
    /\ cameraActive
    /\ PageHidden
    /\ NoneDone
    /\ UNCHANGED <<now, sdVars, rkVars, cameraActive, sdObs, cacheGet,
                   stored>>
AppVisible ==
    \E f \in AppFrames :
        /\ PageVisible(f)
        /\ TimersBounded
        /\ UNCHANGED <<now, cameraActive, cacheGet, stored>>
AppTimer ==
    \E tm \in timers :
        /\ TimerFired(tm)
        /\ TimersBounded
        /\ NoneDone
        /\ UNCHANGED <<now, sdVars, rkVars, cameraActive, hidden, sdObs,
                       cacheGet, stored>>
AppFrame ==
    \E f \in AppFrames :
        /\ AnimationFrame(f)
        /\ TimersBounded
        /\ UNCHANGED <<now, cameraActive, hidden, cacheGet, stored>>
AppAnswer ==
    \E c \in CallIds :
        \E r \in ServiceResultsFor(calls[c].minConfidence) :
            /\ RemoteAnswered(c, r)
            /\ Continued
            /\ TimersBounded
            /\ UNCHANGED <<now, sdVars, cameraActive, hidden, sdObs,
                           cacheGet, stored>>
AppFail ==
    \E c \in CallIds, e \in AppErrors :
        /\ RemoteFailed(c, e)
        /\ Continued
        /\ TimersBounded
        /\ UNCHANGED <<now, sdVars, cameraActive, hidden, sdObs, cacheGet,
                       stored>>
AppRetry ==
    \E c \in CallIds :
        /\ rstats.apiCalls < AppApiCalls
        /\ RetryStarted(c)
        /\ Continued
        /\ TimersBounded
        /\ UNCHANGED <<now, sdVars, cameraActive, hidden, sdObs, cacheGet,
                       stored>>
AppSetEnabled ==
    /\ cameraActive
    /\ ~hidden
    /\ setEnabled(~isEnabled)
    /\ NoneDone
    /\ UNCHANGED <<now, rkVars, appVars, cacheGet, stored>>
AppClock ==
    \E d \in AppSteps(1) :
        /\ ClockAdvance(d, AppTicks * ClockStep)
        /\ NoneDone
        /\ UNCHANGED <<sdVars, rkVars, appVars, sdObs, cacheGet, stored>>

AppNext ==
    \/ AppInitializeStep
    \/ AppStart
    \/ AppStop
    \/ AppHidden
    \/ AppVisible
    \/ AppTimer
    \/ AppFrame
    \/ AppAnswer
    \/ AppFail
    \/ AppRetry
    \/ AppSetEnabled
    \/ AppClock

SpecApp == Init /\ [][AppNext]_vars

----------------------------------------------------------------------------
(* The application with smart detection left enabled, with timers that     *)
(* fire when due, animation frames that are delivered to a visible page,   *)
(* a service that answers, retries that start when their delay is over,    *)
(* and a clock that advances                                               *)

ResumeNext ==
    \/ AppInitializeStep
    \/ AppStart
    \/ AppStop
    \/ AppHidden
    \/ AppVisible
    \/ AppTimer
    \/ AppFrame
    \/ AppAnswer
    \/ AppFail
    \/ AppRetry
    \/ AppClock

SpecResume ==
    /\ Init
    /\ [][ResumeNext]_vars
    /\ WF_vars(AppTimer)
    /\ WF_vars(AppFrame)
    /\ WF_vars(AppAnswer)
    /\ WF_vars(AppRetry)
    /\ WF_vars(AppClock)

----------------------------------------------------------------------------
(* The detection loop left to itself: detection is started once, the page  *)
(* stays visible, smart detection stays enabled                            *)

LoopStart ==
    \E f \in FrameIds :
        /\ cameraActive
        /\ startDetection(f)
        /\ TimersBounded
        /\ UNCHANGED <<now, cameraActive, hidden, cacheGet, stored>>
LoopFrame ==
    \E f \in FrameIds :
        /\ AnimationFrame(f)
        /\ TimersBounded
        /\ UNCHANGED <<now, cameraActive, hidden, cacheGet, stored>>
LoopClock ==
    \E d \in AppSteps(2) :
        /\ ClockAdvance(d, LoopTicks * ClockStep)
        /\ NoneDone
        /\ UNCHANGED <<sdVars, rkVars, appVars, sdObs, cacheGet, stored>>

LoopNext ==
    \/ AppInitializeStep
    \/ LoopStart
    \/ AppTimer
    \/ LoopFrame
    \/ AppAnswer
    \/ AppFail
    \/ AppRetry
    \/ LoopClock

SpecLoop == Init /\ [][LoopNext]_vars

----------------------------------------------------------------------------
(* The detection loop with a service that fails: every remote call is      *)
(* rejected, with an error that is retried or with one that is not, and    *)
(* the retries of a dispatch run until they are exhausted                  *)

CooldownRetry ==
    \E c \in CallIds :
        /\ rstats.apiCalls < MaxApiCalls
        /\ RetryStarted(c)
        /\ Continued
        /\ TimersBounded
        /\ UNCHANGED <<now, sdVars, cameraActive, hidden, sdObs, cacheGet,
                       stored>>
CooldownClock ==
    \E d \in AppSteps(1) :
        /\ ClockAdvance(d, CooldownTicks * ClockStep)
        /\ NoneDone
        /\ UNCHANGED <<sdVars, rkVars, appVars, sdObs, cacheGet, stored>>

CooldownNext ==
    \/ AppInitializeStep
    \/ AppStart
    \/ AppTimer
    \/ AppFrame
    \/ AppFail
    \/ CooldownRetry
    \/ CooldownClock

SpecCooldown == Init /\ [][CooldownNext]_vars

----------------------------------------------------------------------------
(* The detection loop with the other operations of SmartDetection and of   *)
(* RekognitionService called at any point: the settings, the threshold,    *)
(* clearCache and the two resets                                           *)

CountersNext ==
    \/ AppInitializeStep
    \/ AppStart
    \/ AppTimer
    \/ AppFrame
    \/ AppAnswer
    \/ AppFail
    \/ AppRetry
    \/ AppSetEnabled
    \/ SDUpdateSettings
    \/ SDReset
    \/ DispSetThreshold
    \/ DispClearCache
    \/ DispReset
    \/ AppClock

SpecCounters == Init /\ [][CountersNext]_vars

----------------------------------------------------------------------------
(* Properties of SmartDetection, checked under Spec                        *)

\* C1 (throttle invariant): while the instance stays enabled and neither
\* reset() nor updateSettings() is called, any two admissions at times
\* t1 < t2 are at least scanInterval apart.
ThrottleInvariant ==
    \A t1, t2 \in admitTimes : t1 < t2 => t2 - t1 >= scanInterval

\* Two admissions at different times under the same settings.
ThrottleWitness == Cardinality(admitTimes) >= 2

\* C2 (stats consistency): after every completed call, in every
\* interleaving of shouldProcessFrame, setEnabled, updateSettings and reset,
\* framesAnalyzed = framesSkipped + qualityPassed.
StatsConsistency ==
    stats.framesAnalyzed = stats.framesSkipped + stats.qualityPassed

\* Frames were skipped and admitted, some of them after a setEnabled.
StatsWitness ==
    /\ stats.framesSkipped > 0
    /\ stats.qualityPassed > 0
    /\ stats.motionDetected < stats.framesAnalyzed

\* C3 (disabled pipeline): while isEnabled is false every call of
\* shouldProcessFrame, for every frame and at every time, returns true and
\* leaves lastFrame and lastScanTime as they were.
DisabledPipeline ==
    [][\A f \in FrameIds :
          (~isEnabled /\ shouldProcessFrame(f)) =>
              /\ spf'.result
              /\ lastFrame' = lastFrame
              /\ lastScanTime' = lastScanTime]_vars

\* A disabled call for a frame that differs from the stored baseline, at a
\* time when the throttle would have rejected it.
DisabledWitness ==
    /\ spf.gate = "disabled"
    /\ lastFrame # NullFrame
    /\ lastFrame # ImageDataOf[spf.frame]
    /\ spf.time - lastScanTime < scanInterval

\* C4 (skip stops baseline update): a call rejected at the throttle check
\* leaves lastFrame unchanged, so the next motion evaluation compares
\* against the baseline of before the throttled frame.
SkipStopsBaselineUpdate ==
    [][\A f \in FrameIds :
          (shouldProcessFrame(f) /\ spf'.gate = "throttle") =>
              lastFrame' = lastFrame]_vars

\* A throttled frame that differs from the stored baseline.
SkipWitness ==
    /\ spf.gate = "throttle"
    /\ lastFrame # NullFrame
    /\ lastFrame # ImageDataOf[spf.frame]

----------------------------------------------------------------------------
(* Properties of the detection cache                                       *)

\* C5 (cache TTL boundary), under SpecCache: a read of a key whose entry
\* was stored at t0 returns the stored detections and leaves the cache alone
\* when now - t0 < cacheTimeout, and returns a miss and removes the entry
\* when now - t0 >= cacheTimeout.
CacheTTLBoundary ==
    [][\A k \in CacheKeys :
          (CacheRead(k) /\ IndexOf(detectionCache, k) # 0) =>
              LET e == detectionCache[IndexOf(detectionCache, k)]
              IN  IF now - e.timestamp < cacheTimeout
                  THEN /\ cacheGet'.hit
                       /\ cacheGet'.data = e.data
                       /\ detectionCache' = detectionCache
                  ELSE /\ ~cacheGet'.hit
                       /\ IndexOf(detectionCache', k) = 0
                       /\ Len(detectionCache') = Len(detectionCache) - 1]_vars

\* A read of an entry exactly cacheTimeout old, which missed.
CacheTTLWitness ==
    /\ cacheGet.had
    /\ cacheGet.age = cacheTimeout
    /\ ~cacheGet.hit

\* A read of an entry one clock step younger than that, which hit.
CacheTTLHitWitness ==
    /\ cacheGet.had
    /\ cacheGet.age = cacheTimeout - ClockStep
    /\ cacheGet.hit

\* The keys that have an entry.
KeysOf(cache) == {cache[i].key : i \in 1..Len(cache)}

\* C6 (cache eviction order), under SpecFill: once MAX_ENTRIES + 1 distinct
\* keys have been stored into the empty cache within the TTL, the first key
\* stored has no entry and each of the other MAX_ENTRIES keys is returned
\* by getFromCache.
CacheEvictionOrder ==
    (stored = MAX_ENTRIES + 1 /\ now - StartTime < cacheTimeout) =>
        /\ 1 \notin KeysOf(detectionCache)
        /\ \A k \in 2..(MAX_ENTRIES + 1) :
              getFromCache(detectionCache, k, now, cacheTimeout).hit

\* What the code does instead: the first eviction comes with the
\* (MAX_ENTRIES + 2)-th key, so the Map holds up to MAX_ENTRIES + 1 entries.
CacheEvictionObserved ==
    (now - StartTime < cacheTimeout) =>
        /\ stored <= MAX_ENTRIES + 1 =>
              KeysOf(detectionCache) = 1..stored
        /\ stored = MAX_ENTRIES + 2 =>
              KeysOf(detectionCache) = 2..stored

----------------------------------------------------------------------------
(* Properties of detectLogo                                                *)

\* C7 (retry ceiling), under SpecDispatch: a detectLogo invocation that
\* issued remote calls and failed has issued exactly MAX_RETRIES + 1 of
\* them when every one failed with a retryable error, and exactly 1 when
\* the first one failed with an error that is not retryable.
RetryCeiling ==
    (done.pc = "rejected" /\ done.attempts > 0) =>
        /\ ~done.fatal => done.attempts = MAX_RETRIES + 1
        /\ (done.fatal /\ done.retryCount = 0) => done.attempts = 1

\* An invocation rejected after MAX_RETRIES + 1 retryable failures.
RetryCeilingWitness ==
    /\ done.pc = "rejected"
    /\ ~done.fatal
    /\ done.attempts = MAX_RETRIES + 1

\* An invocation rejected by a fatal error of its first remote call.
FatalWitness ==
    /\ done.pc = "rejected"
    /\ done.fatal
    /\ done.retryCount = 0
    /\ done.attempts = 1

----------------------------------------------------------------------------
(* Properties of the detection loop                                        *)

\* The detectLogo invocations awaited by a processFrame.
InFlight == {c \in CallIds : calls[c].pc \in {"remote", "delay"}}

\* The tick chains: a processFrame awaiting detectLogo, a timer that will
\* run one, an animation-frame callback that will run one.
Chains == Cardinality(InFlight) + Cardinality(timers) + animationFrames

\* C8 (serialized loop), under SpecApp: at any time at most one tick chain
\* is active and at most one detectLogo dispatch is in flight.
SerializedLoop ==
    /\ Chains <= 1
    /\ Cardinality(InFlight) <= 1

\* The part of C8 about dispatches alone.
OneDispatchInFlight == Cardinality(InFlight) <= 1

\* The step is a call of shouldProcessFrame for frame f by an enabled
\* pipeline.
Submitted(f) ==
    /\ isEnabled
    /\ stats'.framesAnalyzed = stats.framesAnalyzed + 1
    /\ spf'.frame = f

\* The step calls detectLogo.
Dispatched == done' # IdleCall \/ calls' # calls

\* The step reaches neither the cache nor the service.
NotDispatched ==
    /\ ~Dispatched
    /\ rstats' = rstats
    /\ detectionCache' = detectionCache

\* C9 as stated (scenario A), under SpecLoop: when a frame is submitted
\* again within the cache TTL of its previous submission, the second
\* submission is rejected at the motion check, motionDetected is not
\* incremented and detectLogo is not called.
SameFrameMotionReject ==
    [][\A f \in FrameIds :
          (Submitted(f) /\ spf.frame = f /\ now - spf.time < cacheTimeout) =>
              /\ spf'.gate = "motion"
              /\ stats'.motionDetected = stats.motionDetected
              /\ NotDispatched]_vars

\* C9 amended, under SpecLoop: when a frame is submitted again right after
\* a submission of it that reached the motion check, the second submission
\* is rejected: at the throttle when the first was admitted less than
\* scanInterval before, at the motion check otherwise; motionDetected is
\* not incremented and detectLogo is not called.
SameFrameRejected ==
    [][\A f \in FrameIds :
          (Submitted(f) /\ spf.frame = f /\ spf.gate # "throttle") =>
              /\ ~spf'.result
              /\ spf'.gate =
                     IF spf.gate = "admit" /\ now - spf.time < scanInterval
                     THEN "throttle" ELSE "motion"
              /\ stats'.motionDetected = stats.motionDetected
              /\ NotDispatched]_vars

\* Frame 2 submitted twice, the second time rejected at the motion check:
\* of all frames only frame 2 itself is that close to frame 2.
SameFrameWitness ==
    /\ stats.framesAnalyzed = 2
    /\ spf.frame = 2
    /\ spf.gate = "motion"

\* C10 (scenario B), under SpecLoop: a frame is admitted, the service
\* answers its dispatch, the only remote call so far, with detections,
\* which are cached; the next frame submitted comes more than scanInterval
\* later, differs by more than motionThreshold and passes the quality
\* check.  Then it is admitted and passed to detectLogo, and apiCalls
\* stays 1 when it has the same cache key and the entry is younger than
\* cacheTimeout, and becomes 2 otherwise.
ScenarioB ==
    [][\A f \in FrameIds :
          LET first == ImageDataOf[spf.frame]
              i == IndexOf(detectionCache, KeyOf[spf.frame])
          IN  (/\ Submitted(f)
               /\ spf.gate = "admit"
               /\ now - spf.time > scanInterval
               /\ ExceedsThreshold(
                      calculateFrameDifference(ImageDataOf[f], first),
                      motionThreshold)
               /\ assessImageQuality(ImageDataOf[f], qualityThreshold)
               /\ rstats.apiCalls = 1
               /\ i # 0
               /\ detectionCache[i].timestamp >= spf.time) =>
                  /\ spf'.gate = "admit"
                  /\ Dispatched
                  /\ rstats'.apiCalls =
                         IF /\ KeyOf[f] = KeyOf[spf.frame]
                            /\ now - detectionCache[i].timestamp < cacheTimeout
                         THEN 1 ELSE 2]_vars

\* The second admitted frame was answered from the cache.
ScenarioBWitness ==
    /\ stats.qualityPassed = 2
    /\ spf.gate = "admit"
    /\ done.pc = "resolved"
    /\ done.cached
    /\ rstats.apiCalls = 1

\* The second admitted frame has another key and cost a remote call.
ScenarioBMissWitness ==
    /\ stats.qualityPassed = 2
    /\ spf.gate = "admit"
    /\ spf.frame = 4
    /\ rstats.detections = 1
    /\ rstats.errors = 0
    /\ rstats.apiCalls = 2

\* The second admitted frame has the same key, the entry has expired and
\* it cost a remote call.
ScenarioBExpiredWitness ==
    /\ stats.qualityPassed = 2
    /\ spf.gate = "admit"
    /\ spf.frame = 2
    /\ lastScanTime - StartTime >= cacheTimeout
    /\ rstats.detections = 1
    /\ rstats.errors = 0
    /\ rstats.apiCalls = 2

----------------------------------------------------------------------------
(* Properties of the quality score                                         *)

BrightnessBounded ==
    spf.gate \in {"quality", "admit"} =>
        calculateBrightness(ImageDataOf[spf.frame]) \in 0..1000

----------------------------------------------------------------------------
(* Further properties of the detection cache                               *)

\* C14 (cache capacity bound), under SpecFill: the detection cache never
\* holds more than MAX_ENTRIES entries.
CacheCapacityBound == Len(detectionCache) <= MAX_ENTRIES

\* What the code keeps instead: one entry more.
CacheCapacityObserved == Len(detectionCache) <= MAX_ENTRIES + 1

----------------------------------------------------------------------------
(* Further properties of SmartDetection                                    *)

\* C15 (throttle gate update), under Spec: whenever a frame passes the
\* throttle check, lastScanTime becomes the time of that frame, whether
\* the motion or the quality check rejects it afterwards or not.
ThrottleGateUpdate ==
    [][\A f \in FrameIds :
          (/\ isEnabled
           /\ shouldProcessFrame(f)
           /\ now - lastScanTime >= scanInterval) =>
              lastScanTime' = now]_vars

\* What the code does instead: lastScanTime becomes the time of the frame
\* only when the frame is admitted, and stays as it was otherwise.
ThrottleGateObserved ==
    [][\A f \in FrameIds :
          (isEnabled /\ shouldProcessFrame(f)) =>
              lastScanTime' = IF spf'.result THEN now ELSE lastScanTime]_vars

\* C16 (disabled-mode statistics), under Spec: a call of
\* shouldProcessFrame while disabled increases framesAnalyzed by one and
\* leaves framesSkipped, motionDetected and qualityPassed as they were.
DisabledCountsFrame ==
    [][\A f \in FrameIds :
          (~isEnabled /\ shouldProcessFrame(f)) =>
              stats' = [stats EXCEPT !.framesAnalyzed = @ + 1]]_vars

\* What the code does instead: no statistic changes.
DisabledCountsNothing ==
    [][\A f \in FrameIds :
          (~isEnabled /\ shouldProcessFrame(f)) => stats' = stats]_vars

\* C17 (gate ordering), under Spec: an enabled call is decided by the
\* first check that fails, in the order throttle, motion, quality.  A
\* rejection returns false and adds one to framesSkipped and nothing to
\* qualityPassed; a throttled frame does not reach detectMotion (baseline
\* and motionDetected unchanged); a frame without motion adds nothing to
\* motionDetected; only a frame passing all three returns true and adds
\* one to qualityPassed and nothing to framesSkipped.
GateOrdering ==
    [][\A f \in FrameIds :
          (isEnabled /\ shouldProcessFrame(f)) =>
              LET imageData == ImageDataOf[f]
                  throttled == now - lastScanTime < scanInterval
                  moved ==
                      \/ lastFrame = NullFrame
                      \/ ExceedsThreshold(
                             calculateFrameDifference(imageData, lastFrame),
                             motionThreshold)
                  good == qualityScore(imageData) > qualityThreshold * 10
                  gate == IF throttled THEN "throttle"
                          ELSE IF ~moved THEN "motion"
                          ELSE IF ~good THEN "quality"
                          ELSE "admit"
                  skipped == IF gate = "admit" THEN 0 ELSE 1
              IN  /\ spf'.gate = gate
                  /\ spf'.result = (gate = "admit")
                  /\ stats'.framesAnalyzed = stats.framesAnalyzed + 1
                  /\ stats'.framesSkipped = stats.framesSkipped + skipped
                  /\ stats'.qualityPassed = stats.qualityPassed + 1 - skipped
                  /\ stats'.motionDetected = stats.motionDetected +
                         (IF gate \in {"quality", "admit"} THEN 1 ELSE 0)
                  /\ lastFrame' = IF throttled THEN lastFrame ELSE imageData]_vars

\* A frame rejected by the quality check, after an admission and a
\* rejection by the throttle or the motion check.
GateOrderingWitness ==
    /\ spf.gate = "quality"
    /\ stats.qualityPassed = 1
    /\ stats.framesSkipped = 2
    /\ stats.motionDetected < stats.framesAnalyzed

----------------------------------------------------------------------------
(* Further properties of detectLogo                                        *)

\* C12 (read-through cache hit), under SpecDispatch: a call of detectLogo
\* for a frame whose key has an entry younger than cacheTimeout resolves
\* with the detections of the entry, issues no remote call and leaves
\* the statistics and the cache as they were.
ReadThroughHit ==
    [][\A c \in CallIds, f \in DispFrames :
          LET i == IndexOf(detectionCache, KeyOf[f])
          IN  (/\ isInitialized
               /\ calls[c].pc = "idle"
               /\ DetectLogoCalled(c, f)
               /\ i # 0
               /\ now - detectionCache[i].timestamp < cacheTimeout) =>
                  /\ done'.pc = "resolved"
                  /\ done'.value = detectionCache[i].data
                  /\ done'.attempts = 0
                  /\ rstats' = rstats
                  /\ detectionCache' = detectionCache
                  /\ calls' = calls]_vars

\* A call answered from the cache after the cache was filled by a remote
\* call.
ReadThroughWitness ==
    /\ done.pc = "resolved"
    /\ done.cached
    /\ Len(done.value) > 0
    /\ rstats.apiCalls = 1

\* The step is the answer of the service, an empty list, to the remote
\* call of an invocation for frame g.
EmptyAnswered(g) ==
    /\ done.pc = "resolved"
    /\ ~done.cached
    /\ done.value = <<>>
    /\ done.frame = g

\* The key of frame g has an entry that getFromCache would return now.
CachedNow(g) ==
    getFromCache(detectionCache, KeyOf[g], now, cacheTimeout).hit

\* Every cache entry holds a non-empty detection list.
EntriesNonEmpty ==
    \A i \in 1..Len(detectionCache) : Len(detectionCache[i].data) > 0

EmptyOverlapWitness ==
    \E g \in DispFrames : EmptyAnswered(g) /\ CachedNow(g)

----------------------------------------------------------------------------
(* Further properties of the detection loop                                *)

\* The step passes a frame to shouldProcessFrame: an enabled pipeline
\* counts it, a disabled one admits it, and then detectLogo is called for
\* it and either awaits the service or finishes at once.
FrameProcessed ==
    \/ stats'.framesAnalyzed = stats.framesAnalyzed + 1
    \/ \E c \in CallIds : calls[c].pc = "idle" /\ calls'[c].pc # "idle"
    \/ Finished(done') /\ done'.retryCount = 0 /\ done'.attempts = 0

PauseCompletesWitness ==
    /\ hidden
    /\ isRunning
    /\ done.pc = "resolved"
    /\ done.attempts > 0

\* C20 (stop hides and stays hidden), under SpecApp: while detection is
\* not running the overlay is hidden, also after a dispatch that was in
\* flight at the stop has completed.
StopStaysHidden ==
    ~isRunning => (~isARActive /\ currentDetection = NoDetection)

\* The part of C20 the code keeps: right after stopDetection the timer is
\* cleared and the overlay is hidden.
StopHides ==
    [][(isRunning /\ ~isRunning') =>
          /\ detectionLoop' = 0
          /\ timers' = {tm \in timers : tm.id # detectionLoop}
          /\ ~isARActive'
          /\ currentDetection' = NoDetection]_vars

\* A bound of the model is reached: the loop may be unable to go on.
Exhausted ==
    \/ timerCount >= MaxTimers
    \/ now + LOOP_DELAY > StartTime + AppTicks * ClockStep
    \/ rstats.apiCalls >= AppApiCalls
    \/ isEnabled /\ stats.framesAnalyzed >= MaxFrames
    \/ FreeCall = 0

\* The frames captured in the model.
CaptureCounts == 0..(MaxTimers + MaxCalls)

\* C19 (resume re-arms the loop), under SpecResume: while detection is
\* running on a visible page a tick chain is active, also right after the
\* page became visible again; and from every such state a further frame
\* is captured eventually, unless detection is stopped or the page is
\* hidden before (or a bound of the model is reached).
ResumeRearms ==
    /\ []((isRunning /\ ~hidden) => Chains >= 1)
    /\ \A n \in CaptureCounts :
          (isRunning /\ ~hidden /\ framesCaptured = n) ~>
              (framesCaptured > n \/ ~isRunning \/ hidden \/ Exhausted)

\* The page is visible again after it was hidden while a timer was
\* pending: the timer is gone, resumeDetection has run a tick and the
\* next one is scheduled.
ResumeWitness ==
    /\ isRunning
    /\ ~hidden
    /\ framesCaptured = 2
    /\ timerCount = 2
    /\ Cardinality(timers) = 1
    /\ InFlight = {}
    /\ animationFrames = 0
    /\ now = StartTime

----------------------------------------------------------------------------
(* Properties of the loop when the service fails, checked under            *)
(* SpecCooldown                                                            *)

\* The step ends a dispatch of the loop with a rejection: an error that is
\* not retried, or a retryable one after the last retry.
DispatchRejected ==
    /\ done'.pc = "rejected"
    /\ isRunning

\* The timers the step sets.
NewTimers == timers' \ timers

LoopSurvivesFatalWitness ==
    /\ done.pc = "rejected"
    /\ done.fatal
    /\ isRunning
    /\ \E tm \in timers : tm.kind = "loop" /\ tm.id = detectionLoop

\* The step ends a dispatch of the loop that the service answered with
\* ThrottlingException on every attempt, the last retry included.
ThrottledOut ==
    /\ DispatchRejected
    /\ done'.retryCount = MAX_RETRIES
    /\ ~done'.fatal

\* C22 (rate-limit cooldown), under SpecCooldown: when the dispatch of a
\* tick is rejected because the service answered ThrottlingException on
\* every attempt, the step sets the cooldown timer and no timer that is
\* due earlier than COOLDOWN_DELAY from now, so the next tick is not
\* scheduled before the cooldown is over.
CooldownBeforeNextTick ==
    [][ThrottledOut =>
          /\ \E tm \in NewTimers : tm.kind = "cooldown"
          /\ \A tm \in NewTimers : tm.due >= now + COOLDOWN_DELAY]_vars

\* What the loop does instead: the message of the rejection never holds
\* the word the catch block looks for, so no cooldown timer is ever set and
\* the next tick is scheduled LOOP_DELAY after every rejection.
CooldownNeverSet ==
    /\ [](\A tm \in timers : tm.kind = "loop")
    /\ [][ThrottledOut =>
             /\ ~Includes(done'.message, "ThrottlingException")
             /\ \E tm \in NewTimers : tm.due = now + LOOP_DELAY]_vars

----------------------------------------------------------------------------
(* Further properties of the dispatcher, checked under SpecDispatch        *)

\* Every detection of the list has a confidence of at least floor.
AtLeast(detections, floor) ==
    \A i \in 1..Len(detections) : detections[i].confidence >= floor

\* C23 (confidence floor), under SpecDispatch: every detection that a
\* detectLogo invocation returns, from a remote call or from the cache,
\* has a confidence of at least the confidenceThreshold in force when it
\* returns.
ConfidenceFloor ==
    done.pc = "resolved" => AtLeast(done.value, confidenceThreshold)

\* What the dispatcher does keep: the detections of a remote call are at
\* least the threshold that was passed to the service as MinConfidence
\* when the call was made; nothing is filtered locally.
RemoteFloor ==
    (done.pc = "resolved" /\ ~done.cached) =>
        AtLeast(done.value, done.minConfidence)

\* A cache entry stored under a lower threshold is returned under a higher
\* one.
StaleFloorObserved ==
    /\ done.pc = "resolved"
    /\ done.cached
    /\ ~AtLeast(done.value, confidenceThreshold)

\* The step issues a remote call of invocation c: its first, or a retry.
AttemptIssued(c) ==
    /\ calls'[c].pc = "remote"
    /\ calls'[c].attempts = calls[c].attempts + 1

\* The step is the failure of the remote call of invocation c: a retry
\* delay follows, or the invocation is rejected.
AttemptFailed(c) ==
    /\ calls[c].pc = "remote"
    /\ \/ calls'[c].pc = "delay"
       \/ calls'[c].pc = "idle" /\ done'.pc = "rejected"

\* The step is the answer to the remote call of invocation c.
AttemptSucceeded(c) ==
    /\ calls[c].pc = "remote"
    /\ calls'[c].pc = "idle"
    /\ done'.pc = "resolved"

\* C24 (attempt accounting), under SpecDispatch: the step that issues a
\* remote call, first attempt or retry, adds one to apiCalls and nothing
\* to errors; the step in which the call fails adds one to errors and
\* nothing to apiCalls; the step in which it succeeds adds nothing to
\* either; and a rejected invocation that issued remote calls issued one
\* per failure, so n failed attempts have added n to both counters.
AttemptAccounting ==
    /\ [][\A c \in CallIds :
             /\ AttemptIssued(c) =>
                   /\ rstats'.apiCalls = rstats.apiCalls + 1
                   /\ rstats'.errors = rstats.errors
             /\ AttemptFailed(c) =>
                   /\ rstats'.errors = rstats.errors + 1
                   /\ rstats'.apiCalls = rstats.apiCalls
             /\ AttemptSucceeded(c) =>
                   /\ rstats'.errors = rstats.errors
                   /\ rstats'.apiCalls = rstats.apiCalls]_vars
    /\ []((done.pc = "rejected" /\ done.attempts > 0) =>
             done.attempts = done.retryCount + 1)

\* A dispatch whose four attempts all failed, with both counters at four.
AttemptAccountingWitness ==
    /\ done.pc = "rejected"
    /\ done.attempts = MAX_RETRIES + 1
    /\ rstats.apiCalls = MAX_RETRIES + 1
    /\ rstats.errors = MAX_RETRIES + 1

\* line 104: the unit of the retry delay, in ms
BASE_DELAY == 1000

----------------------------------------------------------------------------
(* Further properties of SmartDetection, checked under Spec                *)

\* The gates at and after the motion check.
MotionChecked == {"motion", "quality", "admit"}

\* C26 (motion baseline), under Spec: lastFrame is null exactly when no
\* frame has reached the motion check since construction or the last
\* reset (the first one to reach it is counted in motionDetected); a call
\* of shouldProcessFrame that reaches the motion check leaves its frame
\* as lastFrame, whether the frame is then admitted, rejected by motion or
\* rejected by quality, and one that does not reach it leaves lastFrame as
\* it was; nothing else changes lastFrame but reset, to null.
MotionBaseline ==
    /\ []((lastFrame = NullFrame) <=> (stats.motionDetected = 0))
    /\ [][\A f \in FrameIds :
             shouldProcessFrame(f) =>
                 IF spf'.gate \in MotionChecked
                 THEN lastFrame' = ImageDataOf[f]
                 ELSE lastFrame' = lastFrame]_vars
    /\ [][lastFrame' # lastFrame =>
             \/ spf'.gate \in MotionChecked
             \/ lastFrame' = NullFrame /\ stats' = ZeroStats]_vars

\* A frame rejected by the motion check is the baseline.
MotionBaselineWitness ==
    /\ spf.gate = "motion"
    /\ lastFrame = ImageDataOf[spf.frame]
    /\ stats.motionDetected > 0

\* A frame rejected by the quality check is the baseline.
QualityBaselineWitness ==
    /\ spf.gate = "quality"
    /\ lastFrame = ImageDataOf[spf.frame]

\* C27 (the first frame passes motion), under Spec: detectMotion on a
\* null baseline returns true for every frame and every threshold, stores
\* the frame and counts it; so a call of shouldProcessFrame that reaches
\* the motion check with lastFrame null is not rejected by motion, leaves
\* its frame as the baseline and adds one to motionDetected.
FirstFramePasses ==
    /\ [](\A f \in FrameIds :
             LET m == detectMotion(ImageDataOf[f], NullFrame, motionThreshold)
             IN  m.result /\ m.lastFrame = ImageDataOf[f] /\ m.counted = 1)
    /\ [][\A f \in FrameIds :
             (/\ lastFrame = NullFrame
              /\ shouldProcessFrame(f)
              /\ spf'.gate \in MotionChecked) =>
                 /\ spf'.gate # "motion"
                 /\ lastFrame' = ImageDataOf[f]
                 /\ stats'.motionDetected = stats.motionDetected + 1]_vars

\* The flat frame was the only one analysed since construction or the
\* last reset, some time after the start: it passed the motion check and
\* is the baseline.
FirstFrameWitness ==
    /\ spf.frame = 3
    /\ spf.gate \in {"quality", "admit"}
    /\ stats.framesAnalyzed = 1
    /\ stats.motionDetected = 1
    /\ lastFrame = ImageDataOf[3]
    /\ now > StartTime

----------------------------------------------------------------------------
(* Further properties of the cache, checked under SpecFill, where the n-th *)
(* key stored is named n                                                   *)

\* The entry of the Map that was inserted earliest.
Earliest(keys) == CHOOSE k \in keys : \A m \in keys : k <= m

\* C28 (first in first out, not least recently used), under SpecFill: the
\* Map lists its entries in the order they were inserted; a write that
\* removes an entry removes exactly one, the present entry inserted
\* earliest, whether or not it was read since; and a getFromCache hit
\* leaves the Map, and with it the eviction order, as it was.
FifoEviction ==
    /\ [](\A i, j \in 1..Len(detectionCache) :
             i < j => detectionCache[i].key < detectionCache[j].key)
    /\ [][stored' = stored + 1 =>
             LET old == KeysOf(detectionCache)
                 new == KeysOf(detectionCache')
             IN  /\ new \ old = {stored'}
                 /\ old \ new # {} => old \ new = {Earliest(old)}]_vars
    /\ [][(cacheGet' # cacheGet /\ cacheGet'.hit) =>
             detectionCache' = detectionCache]_vars

\* The oldest entry was read, and hit, when the Map was full: the next
\* write evicts it.
FifoReadWitness ==
    /\ cacheGet.hit
    /\ cacheGet.key = 1
    /\ Len(detectionCache) = MAX_ENTRIES + 1

\* The first key stored has been evicted and the second is now first in
\* the Map.
FifoEvictionWitness ==
    /\ stored = MAX_ENTRIES + 2
    /\ now - StartTime < cacheTimeout
    /\ KeysOf(detectionCache) = 2..(MAX_ENTRIES + 2)
    /\ detectionCache[1].key = 2

----------------------------------------------------------------------------
(* Properties of the counters, checked under SpecCounters                  *)

\* The step lowers a counter of SmartDetection.
SDCounterDecreases ==
    \/ stats'.framesAnalyzed < stats.framesAnalyzed
    \/ stats'.framesSkipped < stats.framesSkipped
    \/ stats'.motionDetected < stats.motionDetected
    \/ stats'.qualityPassed < stats.qualityPassed

\* The step lowers a counter of RekognitionService.
RKCounterDecreases ==
    \/ rstats'.apiCalls < rstats.apiCalls
    \/ rstats'.detections < rstats.detections
    \/ rstats'.errors < rstats.errors

\* C29 (counters are monotone up to reset), under SpecCounters: a step
\* that lowers a counter of SmartDetection is its reset and a step that
\* lowers a counter of RekognitionService is its reset; the reset of
\* SmartDetection leaves its four counters at 0, lastFrame null and
\* lastScanTime 0, and the reset of RekognitionService leaves its three
\* counters at 0 and the cache empty.
CountersMonotone ==
    /\ [][SDCounterDecreases => reset]_vars
    /\ [][RKCounterDecreases => rkReset]_vars
    /\ [][SDReset =>
             /\ stats' = ZeroStats
             /\ lastFrame' = NullFrame
             /\ lastScanTime' = 0
             /\ rstats' = rstats]_vars
    /\ [][DispReset =>
             /\ rstats'.apiCalls = 0
             /\ rstats'.detections = 0
             /\ rstats'.errors = 0
             /\ detectionCache' = <<>>
             /\ stats' = stats]_vars

\* Two frames went through the loop, which counts the first one in
\* framesAnalyzed or in apiCalls, and every counter is 0, the baseline
\* null and the cache empty: what was counted has been reset.
CountersWitness ==
    /\ framesCaptured >= 2
    /\ stats = ZeroStats
    /\ rstats = ZeroRStats
    /\ lastFrame = NullFrame
    /\ lastScanTime = 0
    /\ detectionCache = <<>>

----------------------------------------------------------------------------
(* The cache key, checked under SpecDispatch                               *)

\* Whether the encoded frames f and g agree on the characters
\* generateCacheKey reads, computed once.
SamePrefix ==
    [f \in FrameIds |-> [g \in FrameIds |->
        Substring(DataURLOf[f], KEY_PREFIX_LENGTH) =
            Substring(DataURLOf[g], KEY_PREFIX_LENGTH)]]

\* Whether the encoded frames f and g differ, computed once.
Differ ==
    [f \in FrameIds |-> [g \in FrameIds |-> DataURLOf[f] # DataURLOf[g]]]

\* The encoded frames f and g differ, but only after those characters.
DifferAfterPrefix(f, g) == SamePrefix[f][g] /\ Differ[f][g]

\* C30 (the fingerprint depends only on a bounded prefix), under
\* SpecDispatch: encoded frames that agree on their first KEY_PREFIX_LENGTH
\* characters have the same key, and when the cache holds an unexpired
\* entry under the key of one of two frames that differ only after them,
\* detectLogo for the other returns that entry's detections without a
\* remote call.
PrefixFingerprint ==
    /\ [](\A f, g \in FrameIds : SamePrefix[f][g] => KeyOf[f] = KeyOf[g])
    /\ [][\A c \in CallIds, f, g \in DispFrames :
             (/\ DifferAfterPrefix(f, g)
              /\ getFromCache(detectionCache, KeyOf[g], now, cacheTimeout).hit
              /\ isInitialized
              /\ calls[c].pc = "idle"
              /\ DetectLogoCalled(c, f)) =>
                 /\ done'.pc = "resolved"
                 /\ done'.cached
                 /\ done'.frame = f
                 /\ done'.value =
                        detectionCache[IndexOf(detectionCache, KeyOf[g])].data
                 /\ rstats'.apiCalls = rstats.apiCalls]_vars

\* Frames 1 and 2 differ only after the prefix, and a call for frame 2 was
\* answered from the one entry of the cache, which is under the key of
\* frame 1, after a single remote call.
PrefixFingerprintWitness ==
    /\ DifferAfterPrefix(1, 2)
    /\ done.pc = "resolved"
    /\ done.cached
    /\ done.frame = 2
    /\ Len(detectionCache) = 1
    /\ detectionCache[1].key = KeyOf[1]
    /\ done.value = detectionCache[1].data
    /\ rstats.apiCalls = 1

\* Frames that differ within the prefix have different keys in the model.
DistinctPrefixKeys ==
    \A f, g \in FrameIds : ~SamePrefix[f][g] => KeyOf[f] # KeyOf[g]

----------------------------------------------------------------------------
(* The counters of the dispatcher when an input does not decode, checked   *)
(* under SpecDecode                                                        *)

\* C31 (dispatcher counter bound), under SpecDecode: errors + detections
\* is at most apiCalls, so the successes getStats reports, apiCalls -
\* errors, are between 0 and apiCalls and successRate is within 0..100.
CounterBound ==
    /\ rstats.errors + rstats.detections <= rstats.apiCalls
    /\ rstats.apiCalls > 0 =>
          rstats.apiCalls - rstats.errors \in 0..rstats.apiCalls

\* What the dispatcher does instead: an input that does not decode is
\* counted as an error and not as a call, so after a remote call getStats
\* reports a negative successRate.
NegativeSuccessRate ==
    /\ rstats.apiCalls > 0
    /\ rstats.apiCalls - rstats.errors < 0

\* What does hold: every detection counted belongs to a remote call that
\* was counted.
DetectionsBound == rstats.detections <= rstats.apiCalls

----------------------------------------------------------------------------
(* After the stop, checked under SpecApp                                   *)

\* Detection is stopped before and after the step: stopDetection has run,
\* or detection was never started, and the step is not startDetection.
StaysStopped == ~isRunning /\ ~isRunning'

\* C32 (no new remote work after stop), under SpecApp: while detection
\* stays stopped no step captures a frame, passes one to
\* shouldProcessFrame, or starts a remote call attempt, a retry of the
\* dispatch that was in flight at the stop included.
NoWorkAfterStop ==
    [][StaysStopped =>
          /\ framesCaptured' = framesCaptured
          /\ stats' = stats
          /\ spf' \in {spf, NoCall}
          /\ rstats'.apiCalls = rstats.apiCalls]_vars

\* The part the loop keeps: while detection stays stopped no frame is
\* captured and none is passed to shouldProcessFrame, and no invocation of
\* detectLogo is started; only an invocation already in flight goes on.
NoFramesAfterStop ==
    [][StaysStopped =>
          /\ framesCaptured' = framesCaptured
          /\ stats' = stats
          /\ spf' \in {spf, NoCall}
          /\ \A c \in CallIds :
                calls[c].pc = "idle" => calls'[c].pc = "idle"]_vars

\* What the dispatcher does instead: detection is stopped and an
\* invocation, after a failed attempt made before or after the stop, has
\* issued a retry.
RetryAfterStop ==
    /\ ~isRunning
    /\ \E c \in CallIds : calls[c].pc = "remote" /\ calls[c].retryCount > 0

====
